---- MODULE Spec2Model ----
(***************************************************************************)
(* Model of the dual-mode channel monitor (src/src/monitor.rs) and of its  *)
(* alarm (src/src/notifier.rs).                                            *)
(*                                                                         *)
(* run_monitor bootstraps last_name from one fetch and then joins two      *)
(* futures, poll_loop and websocket_loop.  Both reconcile an observed name *)
(* against last_name through check_and_notify_change.  The futures         *)
(* interleave at their .await points; every action below is the code that  *)
(* runs from one .await to the next.                                       *)
(*                                                                         *)
(* Option<String> is modelled as a sequence of length at most one:         *)
(* None is << >> and Some(s) is << s >>.                                    *)
(***************************************************************************)
EXTENDS Integers, Sequences, FiniteSets, TLC

\* ---------------------------------------------------------------- bounds
MaxChanges == 2      \* renames of the watched channel by the server
SleepChecks == 2     \* 100 ms checks per replay cycle (30 at notifier.rs:89)
StopChanges == 1     \* renames of the channel while a holder of the Notifier calls stop()

\* ------------------------------------------------------ program constants
ReconnectSecs == 5           \* monitor.rs:284
PollIntervalMs == 1500       \* monitor.rs:324
CheckMs == 100               \* notifier.rs:93
HeartbeatChannelCap == 1     \* monitor.rs:192

\* ------------------------------------------------------------ data model
None == << >>
Some(s) == << s >>

NameStrings == {"", "general-chat"}
Names == {None} \cup {Some(s) : s \in NameStrings}

\* No handle of the running flag has been handed out.
NoHandle == [ref |-> "none", val |-> FALSE]

\* The channel id given to run_monitor and one other channel of the server.
channel_id == "123"

\* The two callers of check_and_notify_change, named by their `source` tag.
Procs == {"POLL", "WS"}

\* Heartbeat intervals a Hello frame may carry.
Intervals == {41250}

NoPayload == [type |-> "none", id |-> "", name |-> None, heartbeat_interval |-> 0]
ChannelPayload(i, n) == [type |-> "channel", id |-> i, name |-> n, heartbeat_interval |-> 0]
HelloPayloadOf(h) == [type |-> "hello", id |-> "", name |-> None, heartbeat_interval |-> h]
JunkPayload == [type |-> "junk", id |-> "", name |-> None, heartbeat_interval |-> 0]

\* What read.next() can yield: Some(Ok(Text)), Some(Ok(Close)), another
\* Some(Ok(_)) message, Some(Err(_)) or None.  A text frame either parses as
\* a GatewayMessage {op, t, d} or does not (json = FALSE).
TextFrame(o, ty, p) == [kind |-> "text", json |-> TRUE, op |-> o, t |-> ty, d |-> p]
BadText == [kind |-> "text", json |-> FALSE, op |-> 0, t |-> None, d |-> NoPayload]
OtherFrame(k) == [kind |-> k, json |-> FALSE, op |-> 0, t |-> None, d |-> NoPayload]
NoFrame == OtherFrame("none")

ChannelUpdate(i, n) == TextFrame(0, Some("CHANNEL_UPDATE"), ChannelPayload(i, n))

\* serde_json::from_value::<Channel>(d) succeeds when d is an object with an
\* `id` string; from_value::<HelloPayload>(d) when it has heartbeat_interval.
DecodesAsChannel(d) == d.type = "channel"
DecodesAsHello(d) == d.type = "hello"

\* First frame of a connection, as read at monitor.rs:118.
HelloFrames ==
    {TextFrame(10, None, HelloPayloadOf(h)) : h \in Intervals}
    \cup {TextFrame(5, None, NoPayload),
          TextFrame(0, None, HelloPayloadOf(41250)),
          TextFrame(10, None, NoPayload),
          TextFrame(10, None, JunkPayload),
          BadText, OtherFrame("binary"), OtherFrame("close"),
          OtherFrame("error"), OtherFrame("end")}

\* Frames of an Active connection that do not report the watched channel.
NoiseFrames ==
    {ChannelUpdate("456", Some("general-chat")),
     TextFrame(0, Some("MESSAGE_CREATE"), ChannelPayload(channel_id, Some("general-chat"))),
     TextFrame(0, Some("CHANNEL_UPDATE"), NoPayload),
     TextFrame(0, Some("CHANNEL_UPDATE"), JunkPayload),
     TextFrame(0, None, ChannelPayload(channel_id, Some("general-chat"))),
     TextFrame(11, None, NoPayload),
     TextFrame(11, Some("CHANNEL_UPDATE"), ChannelPayload(channel_id, Some("general-chat"))),
     TextFrame(7, None, NoPayload),
     BadText, OtherFrame("binary"), OtherFrame("close"),
     OtherFrame("error"), OtherFrame("end")}

\* ----------------------------------------------------------------- state
VARIABLES
    actual,       \* the watched channel's name on the server
    changes,      \* renames performed so far
    last_name,    \* Arc<RwLock<Option<String>>>: the value
    readers,      \* callers holding a read guard of last_name
    writer,       \* caller holding the write guard, or "none"
    pc,           \* position of poll_loop ("POLL") and websocket_loop ("WS")
    new_name,     \* argument of each caller's check_and_notify_change
    seen,         \* value each caller found under its read guard
    running,      \* Notifier.running
    ticks,        \* loop index of the 0..30 sleep loop of each start_alarm
    alerts,       \* start_alarm calls, in order
    notified,     \* send_notification invocations of start_alarm, in order
    alarm_err,    \* the await each caller's start_alarm completed last was a command that failed (logged, notifier.rs:79, 85)
    handle,       \* Arc<AtomicBool> an outside controller got from running_flag()
    boot_ok,      \* whether the initial fetch of run_monitor succeeded
    interval,     \* Duration poll_loop sleeps (ms), 0 before poll_loop starts
    poll_err,     \* the iteration of poll_loop that just ended took the Err arm
    frame,        \* frame last returned by read.next() on the connection
    ws_delay,     \* seconds of the reconnect sleep in progress, 0 when none
    inbox,        \* events of the watched channel queued on the connection
    heartbeat_interval,  \* interval extracted from Hello, 0 before
    identifies,   \* Identify frames sent on the current connection
    hb_task,      \* spawned heartbeat task: "none", "sleep" or "send"
    hb_period,    \* Duration the heartbeat task sleeps
    hb_chan,      \* items in the mpsc channel heartbeat_tx -> heartbeat_rx
    lastFound,    \* << n >> for the last compare that found a difference
    lastDone      \* << r >> for the last reconciliation that finished with last_name

envVars == <<actual, changes, handle>>
lockVars == <<last_name, readers, writer>>
callVars == <<new_name, seen>>
alarmVars == <<running, ticks, alerts, notified, alarm_err>>
pollVars == <<boot_ok, interval, poll_err>>
connVars == <<frame, ws_delay>>
sessVars == <<inbox, heartbeat_interval, identifies>>
hbVars == <<hb_task, hb_period, hb_chan>>
histVars == <<lastFound, lastDone>>
vars == <<actual, changes, last_name, readers, writer, pc, new_name, seen,
          running, ticks, alerts, notified, alarm_err, handle,
          boot_ok, interval, poll_err,
          frame, ws_delay, inbox,
          heartbeat_interval, identifies, hb_task, hb_period, hb_chan,
          lastFound, lastDone>>

Init ==
    /\ actual \in Names
    /\ changes = 0
    /\ last_name = None
    /\ readers = {}
    /\ writer = "none"
    /\ pc = [p \in Procs |-> "init"]
    /\ new_name = [p \in Procs |-> None]
    /\ seen = [p \in Procs |-> None]
    /\ running = FALSE
    /\ ticks = [p \in Procs |-> 0]
    /\ alerts = << >>
    /\ notified = << >>
    /\ alarm_err = [p \in Procs |-> FALSE]
    /\ handle = NoHandle
    /\ boot_ok = FALSE
    /\ interval = 0
    /\ poll_err = FALSE
    /\ frame = NoFrame
    /\ ws_delay = 0
    /\ inbox = << >>
    /\ heartbeat_interval = 0
    /\ identifies = 0
    /\ hb_task = "none"
    /\ hb_period = 0
    /\ hb_chan = 0
    /\ lastFound = << >>
    /\ lastDone = << >>

\* ---------------------------------------------------------- environment
\* The server has accepted Identify on the open connection and therefore
\* dispatches events of the watched channel to it.
SessionLive ==
    /\ identifies > 0
    /\ pc["WS"] \notin {"init", "connect", "hello", "identify", "backoff"}

\* The watched channel is renamed on the server.
ChangeName(n) ==
    /\ changes < MaxChanges
    /\ n # actual
    /\ actual' = n
    /\ changes' = changes + 1
    /\ inbox' = IF SessionLive THEN Append(inbox, ChannelUpdate(channel_id, n)) ELSE inbox
    /\ UNCHANGED <<handle, lockVars, pc, callVars, alarmVars, pollVars, connVars,
                   heartbeat_interval, identifies, hbVars, histVars>>

\* ---------------------------------------------------------- run_monitor
\* Variant of the bootstrap that treats the initial name as a change.
BootstrapAlerting(ok) ==
    /\ pc["POLL"] = "init"
    /\ last_name' = IF ok THEN actual ELSE last_name
    /\ boot_ok' = ok
    /\ interval' = PollIntervalMs
    /\ pc' = [pc EXCEPT !["POLL"] = "sleep", !["WS"] = "connect"]
    /\ running' = (running \/ (ok /\ actual # None))
    /\ notified' = IF ok /\ actual # None THEN Append(notified, actual) ELSE notified
    /\ UNCHANGED <<envVars, readers, writer, callVars, ticks, alerts, alarm_err,
                   poll_err, connVars, sessVars, hbVars, histVars>>

\* Variant of the bootstrap that returns from run_monitor when the initial
\* fetch fails.
BootstrapFatal(ok) ==
    /\ pc["POLL"] = "init"
    /\ last_name' = IF ok THEN actual ELSE last_name
    /\ boot_ok' = ok
    /\ interval' = PollIntervalMs
    /\ pc' = IF ok THEN [pc EXCEPT !["POLL"] = "sleep", !["WS"] = "connect"]
             ELSE [p \in Procs |-> "stopped"]
    /\ UNCHANGED <<envVars, readers, writer, callVars, alarmVars, poll_err,
                   connVars, sessVars, hbVars, histVars>>

\* monitor.rs:299-308, then join! starts both loops; poll_loop computes its
\* interval (line 78) and sleeps.
Bootstrap(ok) ==
    /\ pc["POLL"] = "init"
    /\ last_name' = IF ok THEN actual ELSE last_name
    /\ boot_ok' = ok
    /\ interval' = PollIntervalMs
    /\ pc' = [pc EXCEPT !["POLL"] = "sleep", !["WS"] = "connect"]
    /\ UNCHANGED <<envVars, readers, writer, callVars, alarmVars, poll_err,
                   connVars, sessVars, hbVars, histVars>>

\* ------------------------------------------------------------ poll_loop
\* monitor.rs:81: the interval sleep elapses.
PollWake ==
    /\ pc["POLL"] = "sleep"
    /\ pc' = [pc EXCEPT !["POLL"] = "fetch"]
    /\ poll_err' = FALSE
    /\ UNCHANGED <<envVars, lockVars, callVars, alarmVars, boot_ok, interval,
                   connVars, sessVars, hbVars, histVars>>

\* Variant of the Err arm that doubles the interval after a failed fetch.
PollFetchBackoff(ok) ==
    /\ pc["POLL"] = "fetch"
    /\ poll_err' = ~ok
    /\ IF ok
       THEN /\ new_name' = [new_name EXCEPT !["POLL"] = actual]
            /\ pc' = [pc EXCEPT !["POLL"] = "read"]
            /\ UNCHANGED interval
       ELSE /\ pc' = [pc EXCEPT !["POLL"] = "sleep"]
            /\ interval' = 2 * interval
            /\ UNCHANGED new_name
    /\ UNCHANGED <<envVars, lockVars, seen, alarmVars, boot_ok,
                   connVars, sessVars, hbVars, histVars>>

\* monitor.rs:83-90: fetch_channel_name answers with the name the server
\* holds when it serves the request, or fails (status, transport or body);
\* the Err arm logs and the loop sleeps again.
PollFetch(ok) ==
    /\ pc["POLL"] = "fetch"
    /\ poll_err' = ~ok
    /\ IF ok
       THEN /\ new_name' = [new_name EXCEPT !["POLL"] = actual]
            /\ pc' = [pc EXCEPT !["POLL"] = "read"]
       ELSE /\ pc' = [pc EXCEPT !["POLL"] = "sleep"]
            /\ UNCHANGED new_name
    /\ UNCHANGED <<envVars, lockVars, seen, alarmVars, boot_ok, interval,
                   connVars, sessVars, hbVars, histVars>>

\* ------------------------------------------------ check_and_notify_change
\* Where a caller continues when check_and_notify_change returns.
ReturnTo(p) == IF p = "POLL" THEN "sleep" ELSE "active"

\* Variants of the comparison of line 30: one that reports every observation
\* as a change, one that skips the comparison while nothing is stored.
DiffersAlways(last, new) == TRUE
DiffersWhenKnown(last, new) == last # None /\ last # new

\* monitor.rs:30
Differs(last, new) == last # new

\* monitor.rs:35
IsSome(new) == new # None

\* Variant of the read lock that is granted while a write guard is held.
AcquireReadUnguarded(p) ==
    /\ pc[p] = "read"
    /\ readers' = readers \cup {p}
    /\ pc' = [pc EXCEPT ![p] = "cmp"]
    /\ UNCHANGED <<envVars, last_name, writer, callVars, alarmVars, pollVars,
                   connVars, sessVars, hbVars, histVars>>

\* monitor.rs:29: last_name.read().await resolves.
AcquireRead(p) ==
    /\ pc[p] = "read"
    /\ writer = "none"
    /\ readers' = readers \cup {p}
    /\ pc' = [pc EXCEPT ![p] = "cmp"]
    /\ UNCHANGED <<envVars, last_name, writer, callVars, alarmVars, pollVars,
                   connVars, sessVars, hbVars, histVars>>

\* Variant without the drop(last) of line 31: the read guard lives until the
\* end of the if block.
CompareKeepingGuard(p) ==
    /\ pc[p] = "cmp"
    /\ readers' = IF Differs(last_name, new_name[p]) THEN readers ELSE readers \ {p}
    /\ IF Differs(last_name, new_name[p])
       THEN /\ pc' = [pc EXCEPT ![p] = "write"]
            /\ seen' = [seen EXCEPT ![p] = last_name]
            /\ lastFound' = << new_name[p] >>
            /\ UNCHANGED <<new_name, lastDone>>
       ELSE /\ pc' = [pc EXCEPT ![p] = ReturnTo(p)]
            /\ new_name' = [new_name EXCEPT ![p] = None]
            /\ lastDone' = << [source |-> p, name |-> new_name[p], changed |-> FALSE] >>
            /\ UNCHANGED <<seen, lastFound>>
    /\ UNCHANGED <<envVars, last_name, writer, alarmVars, pollVars,
                   connVars, sessVars, hbVars>>

\* monitor.rs:30-31: compare under the read guard and drop it, up to the
\* next .await (line 32) or the return.
Compare(p) ==
    /\ pc[p] = "cmp"
    /\ readers' = readers \ {p}
    /\ IF Differs(last_name, new_name[p])
       THEN /\ pc' = [pc EXCEPT ![p] = "write"]
            /\ seen' = [seen EXCEPT ![p] = last_name]
            /\ lastFound' = << new_name[p] >>
            /\ UNCHANGED <<new_name, lastDone>>
       ELSE /\ pc' = [pc EXCEPT ![p] = ReturnTo(p)]
            /\ new_name' = [new_name EXCEPT ![p] = None]
            /\ lastDone' = << [source |-> p, name |-> new_name[p], changed |-> FALSE] >>
            /\ UNCHANGED <<seen, lastFound>>
    /\ UNCHANGED <<envVars, last_name, writer, alarmVars, pollVars,
                   connVars, sessVars, hbVars>>

\* monitor.rs:32: last_name.write().await resolves.
AcquireWrite(p) ==
    /\ pc[p] = "write"
    /\ writer = "none"
    /\ readers = {}
    /\ writer' = p
    /\ pc' = [pc EXCEPT ![p] = "store"]
    /\ UNCHANGED <<envVars, last_name, readers, callVars, alarmVars, pollVars,
                   connVars, sessVars, hbVars, histVars>>

\* Variant that drops the write guard only after start_alarm has returned.
StoreHoldingGuard(p) ==
    /\ pc[p] = "store"
    /\ \A q \in Procs \ {p} : pc[q] # "while"
    /\ last_name' = new_name[p]
    /\ writer' = IF IsSome(new_name[p]) THEN p ELSE "none"
    /\ lastDone' = << [source |-> p, name |-> new_name[p], changed |-> TRUE] >>
    /\ seen' = [seen EXCEPT ![p] = None]
    /\ IF IsSome(new_name[p])
       THEN /\ running' = TRUE
            /\ alerts' = Append(alerts, [source |-> p, name |-> new_name[p],
                                          seen |-> seen[p], prior |-> last_name])
            /\ notified' = Append(notified, new_name[p])
            /\ alarm_err' = [alarm_err EXCEPT ![p] = FALSE]
            /\ pc' = [pc EXCEPT ![p] = "notify"]
            /\ UNCHANGED new_name
       ELSE /\ pc' = [pc EXCEPT ![p] = ReturnTo(p)]
            /\ new_name' = [new_name EXCEPT ![p] = None]
            /\ UNCHANGED <<running, alerts, notified, alarm_err>>
    /\ UNCHANGED <<envVars, readers, ticks, pollVars, connVars,
                   sessVars, hbVars, lastFound>>

\* monitor.rs:33-38 and notifier.rs:75-78: store, drop the write guard and,
\* for a present name, enter start_alarm: set running and start
\* send_notification, whose completion is awaited.  Both loops are futures
\* of one task (join!, monitor.rs:323), so this code does not run while the
\* other caller is between the two loads of notifier.rs:90 and 83, where
\* nothing is awaited.
Store(p) ==
    /\ pc[p] = "store"
    /\ \A q \in Procs \ {p} : pc[q] # "while"
    /\ last_name' = new_name[p]
    /\ writer' = "none"
    /\ lastDone' = << [source |-> p, name |-> new_name[p], changed |-> TRUE] >>
    /\ seen' = [seen EXCEPT ![p] = None]
    /\ IF IsSome(new_name[p])
       THEN /\ running' = TRUE
            /\ alerts' = Append(alerts, [source |-> p, name |-> new_name[p],
                                          seen |-> seen[p], prior |-> last_name])
            /\ notified' = Append(notified, new_name[p])
            /\ alarm_err' = [alarm_err EXCEPT ![p] = FALSE]
            /\ pc' = [pc EXCEPT ![p] = "notify"]
            /\ UNCHANGED new_name
       ELSE /\ pc' = [pc EXCEPT ![p] = ReturnTo(p)]
            /\ new_name' = [new_name EXCEPT ![p] = None]
            /\ UNCHANGED <<running, alerts, notified, alarm_err>>
    /\ UNCHANGED <<envVars, readers, ticks, pollVars, connVars,
                   sessVars, hbVars, lastFound>>

\* ---------------------------------------------------------- start_alarm
\* Variant of the while condition that does not read the running flag.
WhileCheckAlways(p) == "play"

\* notifier.rs:83-84: the while condition; play_sound is started when
\* running is read as true, otherwise start_alarm returns.
WhileCheck(p) == IF running THEN "play" ELSE ReturnTo(p)

\* Variant of the for loop without the test of line 90.
ForCheckNoFlag(p, i) == IF i < SleepChecks THEN "nap" ELSE WhileCheck(p)

\* notifier.rs:89-93 and 83 at loop index i.  With the index exhausted the
\* for loop ends and the while condition is tested.  Otherwise running is
\* loaded (line 90): on true the caller sleeps 100 ms, on false it breaks
\* and is about to load running again for the while condition.
ForCheck(p, i) ==
    IF i >= SleepChecks THEN WhileCheck(p)
    ELSE IF running THEN "nap" ELSE "while"

\* The caller's position, loop index and argument after one step of
\* start_alarm that leads to position q.
AlarmStep(p, q, i) ==
    /\ pc' = [pc EXCEPT ![p] = q]
    /\ ticks' = [ticks EXCEPT ![p] = IF q = "nap" THEN i ELSE 0]
    /\ new_name' = [new_name EXCEPT ![p] = IF q = ReturnTo(p) THEN None ELSE @]

\* notifier.rs:78-84: send_notification has completed; an Err is logged
\* (line 79) and the while condition is tested all the same.
NotifyDone(p, ok) ==
    /\ pc[p] = "notify"
    /\ AlarmStep(p, WhileCheck(p), 0)
    /\ alarm_err' = [alarm_err EXCEPT ![p] = ~ok]
    /\ UNCHANGED <<envVars, lockVars, seen, running, alerts, notified, pollVars,
                   connVars, sessVars, hbVars, histVars>>

\* Variant of the playback step that gives the alarm up when mpv fails.
PlayDoneFatal(p, ok) ==
    /\ pc[p] = "play"
    /\ AlarmStep(p, IF ok THEN ForCheck(p, 0) ELSE ReturnTo(p), 0)
    /\ alarm_err' = [alarm_err EXCEPT ![p] = ~ok]
    /\ UNCHANGED <<envVars, lockVars, seen, running, alerts, notified, pollVars,
                   connVars, sessVars, hbVars, histVars>>

\* notifier.rs:84-93: play_sound has completed; an Err is logged (line 85)
\* and the for loop is entered all the same.
PlayDone(p, ok) ==
    /\ pc[p] = "play"
    /\ AlarmStep(p, ForCheck(p, 0), 0)
    /\ alarm_err' = [alarm_err EXCEPT ![p] = ~ok]
    /\ UNCHANGED <<envVars, lockVars, seen, running, alerts, notified, pollVars,
                   connVars, sessVars, hbVars, histVars>>

\* notifier.rs:93, then 89-90 or 83: one 100 ms sleep has elapsed.
NapDone(p) ==
    /\ pc[p] = "nap"
    /\ AlarmStep(p, ForCheck(p, ticks[p] + 1), ticks[p] + 1)
    /\ alarm_err' = [alarm_err EXCEPT ![p] = FALSE]
    /\ UNCHANGED <<envVars, lockVars, seen, running, alerts, notified, pollVars,
                   connVars, sessVars, hbVars, histVars>>

\* notifier.rs:91, then 83: after the break the while condition loads
\* running once more; a store to the flag by another thread may lie between
\* the two loads.
WhileTest(p) ==
    /\ pc[p] = "while"
    /\ AlarmStep(p, WhileCheck(p), 0)
    /\ UNCHANGED <<envVars, lockVars, seen, running, alerts, notified, alarm_err,
                   pollVars, connVars, sessVars, hbVars, histVars>>

\* ------------------------------------------------------- websocket_loop
\* Variant of the Hello test without the guard `msg.op == 10`.
IsHelloAnyOp(f) ==
    /\ f.kind = "text"
    /\ f.json
    /\ f.d.type # "none"
    /\ DecodesAsHello(f.d)

\* monitor.rs:119-130: the first frame is a Hello carrying an interval.
IsHello(f) ==
    /\ f.kind = "text"
    /\ f.json
    /\ f.op = 10
    /\ f.d.type # "none"
    /\ DecodesAsHello(f.d)

\* Variant of the event filter without the comparison of line 237.
IsAnyChannelUpdate(f) ==
    /\ f.kind = "text"
    /\ f.json
    /\ f.op = 0
    /\ f.t = Some("CHANNEL_UPDATE")
    /\ f.d.type # "none"
    /\ DecodesAsChannel(f.d)

\* monitor.rs:229-237: the frame is a CHANNEL_UPDATE of the watched channel.
IsWatchedUpdate(f) ==
    /\ f.kind = "text"
    /\ f.json
    /\ f.op = 0
    /\ f.t = Some("CHANNEL_UPDATE")
    /\ f.d.type # "none"
    /\ DecodesAsChannel(f.d)
    /\ f.d.id = channel_id

\* Variant of the match of line 228 whose last arm breaks the loop as well.
EndsSessionNonText(f) == f.kind # "text"

\* monitor.rs:256-267: Close, Some(Err) and None break the event loop.
EndsSession(f) == f.kind \in {"close", "error", "end"}

\* monitor.rs:111-115: connect_async succeeds; a new stream is split.
ConnectOk ==
    /\ pc["WS"] = "connect"
    /\ pc' = [pc EXCEPT !["WS"] = "hello"]
    /\ UNCHANGED <<envVars, lockVars, callVars, alarmVars, pollVars, connVars,
                   sessVars, hbVars, histVars>>

\* Variant of the Err arm in which the error leaves websocket_loop and ends
\* the join of both loops.
ConnectErrPropagating ==
    /\ pc["WS"] = "connect"
    /\ ws_delay' = ReconnectSecs
    /\ pc' = [p \in Procs |-> "backoff"]
    /\ UNCHANGED <<envVars, lockVars, callVars, alarmVars, pollVars, frame,
                   sessVars, hbVars, histVars>>

\* monitor.rs:277-284: connect_async fails; the reconnect sleep starts.
ConnectErr ==
    /\ pc["WS"] = "connect"
    /\ ws_delay' = ReconnectSecs
    /\ pc' = [pc EXCEPT !["WS"] = "backoff"]
    /\ UNCHANGED <<envVars, lockVars, callVars, alarmVars, pollVars, frame,
                   sessVars, hbVars, histVars>>

\* monitor.rs:118-184: the first frame arrives.  A Hello yields the interval
\* and the Identify send is started; anything else runs `continue`, which
\* restarts the outer loop of line 108.
RecvHello(f) ==
    /\ pc["WS"] = "hello"
    /\ IF IsHello(f)
       THEN /\ heartbeat_interval' = f.d.heartbeat_interval
            /\ frame' = f
            /\ pc' = [pc EXCEPT !["WS"] = "identify"]
       ELSE /\ pc' = [pc EXCEPT !["WS"] = "connect"]
            /\ frame' = NoFrame
            /\ UNCHANGED heartbeat_interval
    /\ UNCHANGED <<envVars, lockVars, callVars, alarmVars, pollVars, ws_delay,
                   inbox, identifies, hbVars, histVars>>

\* monitor.rs:184-202: write.send(identify) resolves.  On success the
\* heartbeat task is spawned with the Hello's interval; on failure `continue`.
IdentifyDone(ok) ==
    /\ pc["WS"] = "identify"
    /\ IF ok
       THEN /\ identifies' = identifies + 1
            /\ hb_task' = "sleep"
            /\ hb_period' = heartbeat_interval
            /\ hb_chan' = 0
            /\ pc' = [pc EXCEPT !["WS"] = "active"]
            /\ UNCHANGED <<heartbeat_interval, frame>>
       ELSE /\ pc' = [pc EXCEPT !["WS"] = "connect"]
            /\ heartbeat_interval' = 0
            /\ frame' = NoFrame
            /\ UNCHANGED <<identifies, hb_task, hb_period, hb_chan>>
    /\ UNCHANGED <<envVars, lockVars, callVars, alarmVars, pollVars, ws_delay,
                   inbox, histVars>>

\* monitor.rs:196-200: the heartbeat task's sleep elapses and it sends ()
\* into the channel of capacity 1, or blocks in send while the channel is full.
HeartbeatFire ==
    /\ hb_task = "sleep"
    /\ IF hb_chan < HeartbeatChannelCap
       THEN hb_chan' = hb_chan + 1 /\ UNCHANGED hb_task
       ELSE hb_task' = "send" /\ UNCHANGED hb_chan
    /\ UNCHANGED <<envVars, lockVars, pc, callVars, alarmVars, pollVars,
                   connVars, sessVars, hb_period, histVars>>

\* monitor.rs:198: the blocked send completes once the channel has room.
HeartbeatUnblock ==
    /\ hb_task = "send"
    /\ hb_chan < HeartbeatChannelCap
    /\ hb_chan' = hb_chan + 1
    /\ hb_task' = "sleep"
    /\ UNCHANGED <<envVars, lockVars, pc, callVars, alarmVars, pollVars,
                   connVars, sessVars, hb_period, histVars>>

\* Variant of the exit from the event loop that reconnects without sleeping.
EndSessionAtOnce ==
    /\ hb_task' = "none"
    /\ hb_period' = 0
    /\ hb_chan' = 0
    /\ inbox' = << >>
    /\ heartbeat_interval' = 0
    /\ identifies' = 0
    /\ ws_delay' = 0
    /\ pc' = [pc EXCEPT !["WS"] = "connect"]

\* Variant of the exit from the event loop without heartbeat_handle.abort().
EndSessionNoAbort ==
    /\ inbox' = << >>
    /\ heartbeat_interval' = 0
    /\ identifies' = 0
    /\ ws_delay' = ReconnectSecs
    /\ pc' = [pc EXCEPT !["WS"] = "backoff"]
    /\ UNCHANGED <<hb_task, hb_period, hb_chan>>

\* monitor.rs:272-284: the event loop is left: the heartbeat task is aborted,
\* the stream halves and the receiver go out of scope, the reconnect sleep
\* starts.
EndSession ==
    /\ hb_task' = "none"
    /\ hb_period' = 0
    /\ hb_chan' = 0
    /\ inbox' = << >>
    /\ heartbeat_interval' = 0
    /\ identifies' = 0
    /\ ws_delay' = ReconnectSecs
    /\ pc' = [pc EXCEPT !["WS"] = "backoff"]

\* monitor.rs:212-220: select! takes () from heartbeat_rx and starts sending
\* the op 1 frame.
RecvBeat ==
    /\ pc["WS"] = "active"
    /\ hb_chan > 0
    /\ hb_chan' = hb_chan - 1
    /\ pc' = [pc EXCEPT !["WS"] = "beat"]
    /\ UNCHANGED <<envVars, lockVars, callVars, alarmVars, pollVars, connVars,
                   sessVars, hb_task, hb_period, histVars>>

\* monitor.rs:220-223: write.send(heartbeat) resolves; a failure breaks the
\* event loop.
BeatDone(ok) ==
    /\ pc["WS"] = "beat"
    /\ IF ok
       THEN /\ pc' = [pc EXCEPT !["WS"] = "active"]
            /\ UNCHANGED <<hb_task, hb_period, hb_chan, ws_delay, inbox,
                           heartbeat_interval, identifies>>
       ELSE EndSession
    /\ UNCHANGED <<envVars, lockVars, callVars, alarmVars, pollVars, frame,
                   histVars>>

\* monitor.rs:227-270: what the event loop does with the frame f that
\* read.next() returned; rest is what stays queued.
Dispatch(f, rest) ==
    /\ frame' = f
    /\ IF IsWatchedUpdate(f)
       THEN /\ new_name' = [new_name EXCEPT !["WS"] = f.d.name]
            /\ pc' = [pc EXCEPT !["WS"] = "read"]
            /\ inbox' = rest
            /\ UNCHANGED <<hb_task, hb_period, hb_chan, heartbeat_interval,
                           identifies, ws_delay>>
       ELSE IF EndsSession(f)
       THEN /\ EndSession
            /\ UNCHANGED new_name
       ELSE /\ inbox' = rest
            /\ UNCHANGED <<pc, new_name, hb_task, hb_period, hb_chan,
                           heartbeat_interval, identifies, ws_delay>>

\* read.next() returns the next queued event of the watched channel.
RecvEvent ==
    /\ pc["WS"] = "active"
    /\ inbox # << >>
    /\ Dispatch(Head(inbox), Tail(inbox))
    /\ UNCHANGED <<envVars, lockVars, seen, alarmVars, pollVars, histVars>>

\* read.next() returns a frame that does not report the watched channel.
RecvNoise(f) ==
    /\ pc["WS"] = "active"
    /\ Dispatch(f, inbox)
    /\ UNCHANGED <<envVars, lockVars, seen, alarmVars, pollVars, histVars>>

\* monitor.rs:284: the reconnect sleep elapses.
BackoffDone ==
    /\ pc["WS"] = "backoff"
    /\ ws_delay' = 0
    /\ frame' = NoFrame
    /\ pc' = [pc EXCEPT !["WS"] = "connect"]
    /\ UNCHANGED <<envVars, lockVars, callVars, alarmVars, pollVars, sessVars,
                   hbVars, histVars>>

\* -------------------------------------------------------- specification
\* The steps of run_monitor.  Nothing in it clears the running flag, so the
\* break of notifier.rs:91 is never taken and WhileTest is no step of it.
Next ==
    \/ \E n \in Names : ChangeName(n)
    \/ \E ok \in BOOLEAN : Bootstrap(ok)
    \/ PollWake
    \/ \E ok \in BOOLEAN : PollFetch(ok)
    \/ \E p \in Procs : AcquireRead(p)
    \/ \E p \in Procs : Compare(p)
    \/ \E p \in Procs : AcquireWrite(p)
    \/ \E p \in Procs : Store(p)
    \/ \E p \in Procs, ok \in BOOLEAN : NotifyDone(p, ok)
    \/ \E p \in Procs, ok \in BOOLEAN : PlayDone(p, ok)
    \/ \E p \in Procs : NapDone(p)
    \/ ConnectOk
    \/ ConnectErr
    \/ \E f \in HelloFrames : RecvHello(f)
    \/ \E ok \in BOOLEAN : IdentifyDone(ok)
    \/ HeartbeatFire
    \/ HeartbeatUnblock
    \/ RecvBeat
    \/ \E ok \in BOOLEAN : BeatDone(ok)
    \/ RecvEvent
    \/ \E f \in NoiseFrames : RecvNoise(f)
    \/ BackoffDone

Spec == Init /\ [][Next]_vars

\* The steps of one caller inside check_and_notify_change and start_alarm.
Progress(p) ==
    \/ AcquireRead(p)
    \/ Compare(p)
    \/ AcquireWrite(p)
    \/ Store(p)
    \/ \E ok \in BOOLEAN : NotifyDone(p, ok)
    \/ \E ok \in BOOLEAN : PlayDone(p, ok)
    \/ NapDone(p)
    \/ WhileTest(p)

\* Scheduling of the runtime: a timer that was armed fires, a request that
\* was sent is answered or fails, a ready branch of select! is taken.  The
\* RwLock of tokio queues its waiters in order of arrival, so a caller that
\* waits for a guard gets it although the lock is taken again and again:
\* strong fairness for the steps of a caller.  Renames of the channel and
\* the arrival of frames that do not report it are up to the server and
\* carry no fairness.
Fairness ==
    /\ WF_vars(\E ok \in BOOLEAN : Bootstrap(ok))
    /\ WF_vars(PollWake)
    /\ WF_vars(\E ok \in BOOLEAN : PollFetch(ok))
    /\ \A p \in Procs : SF_vars(Progress(p))
    /\ WF_vars(ConnectOk \/ ConnectErr)
    /\ WF_vars(\E f \in HelloFrames : RecvHello(f))
    /\ WF_vars(\E ok \in BOOLEAN : IdentifyDone(ok))
    /\ WF_vars(HeartbeatFire)
    /\ WF_vars(HeartbeatUnblock)
    /\ WF_vars(RecvBeat)
    /\ WF_vars(\E ok \in BOOLEAN : BeatDone(ok))
    /\ WF_vars(RecvEvent)
    /\ WF_vars(BackoffDone)

\* The monitor under the runtime's scheduling.
FairSpec == Spec /\ Fairness

\* Variant of stop that also ends the playbacks in flight.
StopInterrupting ==
    /\ running' = FALSE
    /\ pc' = [p \in Procs |-> IF pc[p] = "play" THEN "nap" ELSE pc[p]]
    /\ UNCHANGED <<envVars, lockVars, callVars, ticks, alerts, notified,
                   alarm_err, pollVars, connVars, sessVars, hbVars, histVars>>

\* notifier.rs:99-101: Notifier::stop, called by a holder of the Notifier
\* from a thread of its own, at any time.
Stop ==
    /\ running' = FALSE
    /\ UNCHANGED <<envVars, lockVars, pc, callVars, ticks, alerts, notified,
                   alarm_err, pollVars, connVars, sessVars, hbVars, histVars>>

\* The monitor with a caller of Notifier::stop next to it, on connections
\* that carry nothing but events of the watched channel and whose heartbeat
\* timer does not fire: the steps that reach and run start_alarm.  The
\* server renames the channel StopChanges times at most; stop() is called
\* any number of times.
NextStop ==
    \/ Stop
    \/ \E n \in Names : changes < StopChanges /\ ChangeName(n)
    \/ \E ok \in BOOLEAN : Bootstrap(ok)
    \/ PollWake
    \/ \E ok \in BOOLEAN : PollFetch(ok)
    \/ \E p \in Procs : AcquireRead(p)
    \/ \E p \in Procs : Compare(p)
    \/ \E p \in Procs : AcquireWrite(p)
    \/ \E p \in Procs : Store(p)
    \/ \E p \in Procs, ok \in BOOLEAN : NotifyDone(p, ok)
    \/ \E p \in Procs, ok \in BOOLEAN : PlayDone(p, ok)
    \/ \E p \in Procs : NapDone(p)
    \/ \E p \in Procs : WhileTest(p)
    \/ ConnectOk
    \/ ConnectErr
    \/ \E f \in HelloFrames : RecvHello(f)
    \/ \E ok \in BOOLEAN : IdentifyDone(ok)
    \/ RecvEvent
    \/ BackoffDone

SpecStop == Init /\ [][NextStop]_vars

\* The awaits inside start_alarm complete: the notify-send and mpv
\* processes exit and the 100 ms timer fires; the code between two awaits
\* runs on.
AlarmProgress(p) ==
    \/ \E ok \in BOOLEAN : NotifyDone(p, ok)
    \/ \E ok \in BOOLEAN : PlayDone(p, ok)
    \/ NapDone(p)
    \/ WhileTest(p)

FairSpecStop == SpecStop /\ \A p \in Procs : WF_vars(AlarmProgress(p))

\* ------------------------------------------------------ the running flag
\* An Arc<AtomicBool> refers to a cell: the one the Notifier owns
\* (ref = "running") or one of its own (ref = "copy", holding val).

\* Variant of running_flag that hands out a fresh cell with the current value.
RunningFlagCopy == [ref |-> "copy", val |-> running]

\* notifier.rs:27-29: Arc::clone(&self.running), a second reference to the
\* Notifier's cell.
running_flag == [ref |-> "running", val |-> FALSE]

\* notifier.rs:32-34
is_running == running

\* flag.load(Ordering::SeqCst) through a handle h.
FlagLoad(h) == IF h.ref = "copy" THEN h.val ELSE running

\* An outside controller asks the Notifier for its flag.
TakeHandle ==
    /\ handle = NoHandle
    /\ handle' = running_flag
    /\ UNCHANGED <<actual, changes, lockVars, pc, callVars, alarmVars, pollVars,
                   connVars, sessVars, hbVars, histVars>>

\* flag.store(b, Ordering::SeqCst) through the handle.
FlagStore(b) ==
    /\ handle # NoHandle
    /\ IF handle.ref = "copy"
       THEN handle' = [handle EXCEPT !.val = b] /\ UNCHANGED running
       ELSE running' = b /\ UNCHANGED handle
    /\ UNCHANGED <<actual, changes, lockVars, pc, callVars, ticks, alerts,
                   notified, alarm_err, pollVars, connVars, sessVars, hbVars,
                   histVars>>

\* The Notifier with its three writers of the flag: start_alarm, called by
\* poll_loop while the gateway is unreachable, stop() and a holder of the
\* handle.
NextFlag ==
    \/ TakeHandle
    \/ \E b \in BOOLEAN : FlagStore(b)
    \/ Stop
    \/ \E n \in Names : ChangeName(n)
    \/ \E ok \in BOOLEAN : Bootstrap(ok)
    \/ PollWake
    \/ \E ok \in BOOLEAN : PollFetch(ok)
    \/ \E p \in Procs : AcquireRead(p)
    \/ \E p \in Procs : Compare(p)
    \/ \E p \in Procs : AcquireWrite(p)
    \/ \E p \in Procs : Store(p)
    \/ \E p \in Procs, ok \in BOOLEAN : NotifyDone(p, ok)
    \/ \E p \in Procs, ok \in BOOLEAN : PlayDone(p, ok)
    \/ \E p \in Procs : NapDone(p)
    \/ \E p \in Procs : WhileTest(p)
    \/ ConnectErr
    \/ BackoffDone

SpecFlag == Init /\ [][NextFlag]_vars

TypeOK ==
    /\ actual \in Names
    /\ last_name \in Names
    /\ readers \subseteq Procs
    /\ writer \in Procs \cup {"none"}
    /\ running \in BOOLEAN
    /\ hb_chan \in 0..HeartbeatChannelCap

\* ----------------------------------------------------------- properties
\* Positions inside check_and_notify_change up to the release of the write guard.
Reconciling == {"read", "cmp", "write", "store"}

AlertAt(p) == [source |-> p, name |-> new_name[p], seen |-> seen[p], prior |-> last_name]

\* C1: when both callers reconcile the same new name concurrently, only the
\* caller that wins the write calls start_alarm; the other one is a no-op.
\* The caller that writes second replaces the name by itself (prior = name),
\* so no alert may be recorded over an equal stored name.
C1_RaceTriggersOnce ==
    \A i, j \in 1..Len(alerts) :
        (i < j /\ alerts[i].source # alerts[j].source /\ alerts[i].name = alerts[j].name)
            => alerts[j].prior # alerts[j].name

\* C2: one rename of the watched channel to a present name, after a
\* successful bootstrap, yields at most one alert over both sources and no
\* alert that carries another name than the new one.
C2_OneAlertPerChange ==
    (boot_ok /\ changes = 1 /\ actual # None)
        => /\ Len(alerts) <= 1
           /\ \A k \in 1..Len(alerts) : alerts[k].name = actual

\* C3: start_alarm is called only by a reconciliation whose observed name is
\* present and differs from the value that last_name holds at that moment,
\* the value the store of that step replaces; a reconciliation of an absent
\* name stores None and calls no start_alarm.
C3_AlertOnlyForPresentDifference ==
    [][ /\ (alerts' # alerts) =>
               \E p \in Procs : /\ pc[p] = "store"
                                /\ new_name[p] # None
                                /\ new_name[p] # last_name
                                /\ alerts' = Append(alerts, AlertAt(p))
        /\ \A p \in Procs :
               (pc[p] = "store" /\ pc'[p] # "store" /\ new_name[p] = None)
                   => (last_name' = None /\ alerts' = alerts /\ running' = running)
      ]_vars

\* C4: a reconciliation of the name that the last finished reconciliation
\* had leaves last_name unchanged, calls no start_alarm and returns.
C4_Idempotent ==
    [][ \A p \in Procs :
            (pc[p] = "cmp" /\ pc'[p] # "cmp" /\ lastDone # << >>
                /\ lastDone[1].name = new_name[p])
                => /\ pc'[p] = ReturnTo(p)
                   /\ last_name' = last_name
                   /\ alerts' = alerts
      ]_vars

C4_Witness ==
    /\ lastDone = << [source |-> "WS", name |-> Some("general-chat"), changed |-> FALSE] >>
    /\ Len(alerts) = 1
    /\ alerts[1].source = "POLL"
    /\ alerts[1].name = Some("general-chat")

\* C5: once no reconciliation is in progress, last_name is the name of the
\* last reconciliation whose compare found a difference.
C5_FinalIsLastFound ==
    ((\A p \in Procs : pc[p] \notin Reconciling) /\ lastFound # << >>)
        => last_name = lastFound[1]

\* C6: while Active, a CHANNEL_UPDATE (op 0) of the watched id is reconciled
\* with its name; if the name is present and differs from last_name the
\* caller goes on to write it, the write sets last_name to it and calls
\* start_alarm once with it.
C6_Dispatch ==
    [][ /\ (pc["WS"] = "active" /\ inbox # << >> /\ inbox' = Tail(inbox) /\ frame' = Head(inbox)
              /\ Head(inbox).op = 0 /\ Head(inbox).t = Some("CHANNEL_UPDATE")
              /\ Head(inbox).d.id = channel_id)
               => (pc'["WS"] = "read" /\ new_name'["WS"] = Head(inbox).d.name)
        /\ (pc["WS"] = "cmp" /\ pc'["WS"] # "cmp" /\ new_name["WS"] # None
              /\ new_name["WS"] # last_name)
               => pc'["WS"] = "write"
        /\ (pc["WS"] = "store" /\ pc'["WS"] # "store" /\ new_name["WS"] # None)
               => /\ last_name' = new_name["WS"]
                  /\ alerts' = Append(alerts, AlertAt("WS"))
                  /\ pc'["WS"] = "notify"
        /\ (pc["WS"] # "store") =>
               \A k \in 1..Len(alerts') : (k > Len(alerts) => alerts'[k].source # "WS")
      ]_vars

C6_Witness ==
    /\ frame = ChannelUpdate(channel_id, Some("general-chat"))
    /\ last_name = Some("general-chat")
    /\ alerts = << [source |-> "WS", name |-> Some("general-chat"),
                    seen |-> None, prior |-> None] >>

\* Frames the event loop must ignore according to C7.
Filtered(f) ==
    /\ f.kind = "text"
    /\ f.json
    /\ \/ f.op = 0 /\ f.t = Some("CHANNEL_UPDATE") /\ f.d.type = "channel" /\ f.d.id # channel_id
       \/ f.op = 0 /\ f.t # Some("CHANNEL_UPDATE")
       \/ f.op = 0 /\ f.d.type = "none"
       \/ f.op = 11

\* C7: while Active, a CHANNEL_UPDATE of another id, a dispatch with another
\* event type or without payload, and a heartbeat ack leave last_name and the
\* alerts unchanged and the client Active.
C7_IntakeFilter ==
    [][ (pc["WS"] = "active" /\ frame' # frame /\ Filtered(frame'))
            => /\ pc'["WS"] = "active"
               /\ last_name' = last_name
               /\ alerts' = alerts
               /\ running' = running
      ]_vars

C7_Witness ==
    /\ pc["WS"] = "active"
    /\ frame = ChannelUpdate("456", Some("general-chat"))

\* C8: on a connection Identify is sent once, after a first frame with op 10
\* and a heartbeat_interval; the heartbeat task sleeps that interval; no
\* heartbeat is sent and no event reconciled before Identify was sent.
C8_HandshakeOrder ==
    [][ /\ identifies' \in {0, 1}
        /\ (identifies' > identifies) =>
               /\ pc["WS"] = "identify"
               /\ frame.kind = "text" /\ frame.json /\ frame.op = 10
               /\ frame.d.type = "hello"
               /\ hb_task' = "sleep"
               /\ hb_period' = frame.d.heartbeat_interval
        /\ (pc'["WS"] = "beat") => (pc["WS"] \in {"active", "beat"} /\ identifies = 1)
        /\ (pc'["WS"] \in Reconciling \cup {"beat", "active"}) => identifies' = 1
        /\ (hb_task' # "none") => identifies' = 1
      ]_vars

C8_Witness ==
    /\ pc["WS"] = "beat"
    /\ identifies = 1
    /\ hb_period = 41250

\* C9: a first frame that is no valid greeting is followed by the reconnect
\* sleep of 5 seconds, without an Identify, before the next connect attempt.
C9_HandshakeFailureBacksOff ==
    [][ (pc["WS"] = "hello" /\ pc'["WS"] \notin {"hello", "identify"})
            => (pc'["WS"] = "backoff" /\ ws_delay' = ReconnectSecs /\ identifies' = 0)
      ]_vars

\* C10: a failed connect and every exit from Active start the reconnect
\* sleep; the sleep is always 5 seconds and always ends in a new attempt,
\* which no count of earlier attempts disables.
C10_ReconnectBackoff ==
    [][ /\ (pc["WS"] = "connect" /\ pc'["WS"] \notin {"connect", "hello"})
               => pc'["WS"] = "backoff"
        /\ (pc["WS"] \in {"active", "beat"} /\ pc'["WS"] \notin {"active", "beat", "read"})
               => pc'["WS"] = "backoff"
        /\ (pc'["WS"] = "backoff") => ws_delay' = ReconnectSecs
        /\ (pc["WS"] = "backoff" /\ pc'["WS"] # "backoff") => pc'["WS"] = "connect"
        /\ (pc["WS"] = "backoff") => ENABLED BackoffDone
        /\ (pc["WS"] = "connect") => (ENABLED ConnectOk /\ ENABLED ConnectErr)
      ]_vars

C10_Witness ==
    /\ pc["WS"] = "backoff"
    /\ frame.kind = "close"
    /\ ws_delay = ReconnectSecs

\* Positions inside start_alarm.
AlarmLoop == {"notify", "play", "nap", "while"}

\* C11: under the runtime's scheduling every firing of the heartbeat timer
\* (an item in the channel of the heartbeat task) is eventually followed by
\* the sending of a heartbeat frame or by the end of the Active state.
C11_HeartbeatObligation ==
    (hb_chan > 0) ~> (pc["WS"] = "beat" \/ hb_task = "none")

\* Positions of websocket_loop inside the event loop of a connection.
InSession == {"active", "beat"} \cup Reconciling \cup AlarmLoop

\* C12: outside the event loop of a connection no heartbeat task exists and
\* its channel is empty; a task is spawned only when none exists, on a
\* channel of its own; every exit from the event loop cancels the task; a
\* heartbeat is sent only for an item of the live task's channel.
C12_HeartbeatCancelled ==
    [][ /\ (pc'["WS"] \notin InSession) => (hb_task' = "none" /\ hb_chan' = 0)
        /\ (hb_task' # "none" /\ hb_task = "none")
               => (pc["WS"] = "identify" /\ hb_chan' = 0 /\ hb_period' = heartbeat_interval)
        /\ (pc["WS"] \in InSession /\ pc'["WS"] \notin InSession)
               => (hb_task # "none" /\ hb_task' = "none")
        /\ (pc'["WS"] = "beat" /\ pc["WS"] # "beat")
               => (hb_task # "none" /\ hb_chan > 0 /\ hb_chan' = hb_chan - 1)
      ]_vars

C12_Witness ==
    /\ pc["WS"] = "backoff"
    /\ frame.kind = "end"
    /\ hb_task = "none"
    /\ hb_chan = 0

\* C13: under the runtime's scheduling websocket_loop is always again about
\* to connect or waiting in select! for the next event of a live session.
C13_NoTerminalState ==
    []<>(pc["WS"] \in {"connect", "active"})

\* C14: a failed fetch leaves last_name, the alerts and the alarm as they
\* are and puts poll_loop back to its sleep of the unchanged interval of
\* 1.5 s; from that sleep the next fetch is always enabled and follows.
C14_PollFailure ==
    [][ /\ (pc["POLL"] = "fetch" /\ pc'["POLL"] = "sleep")
               => /\ poll_err'
                  /\ last_name' = last_name
                  /\ alerts' = alerts
                  /\ notified' = notified
                  /\ running' = running
                  /\ interval' = interval
        /\ (pc'["POLL"] = "sleep") => interval' = 1500
        /\ (pc["POLL"] = "sleep") => ENABLED PollWake
        /\ (pc["POLL"] = "sleep" /\ pc'["POLL"] # "sleep") => pc'["POLL"] = "fetch"
      ]_vars

C14_Witness ==
    /\ pc["POLL"] = "sleep"
    /\ poll_err
    /\ last_name # actual
    /\ alerts = << >>

\* C15: under the runtime's scheduling poll_loop performs a fetch again and
\* again, whatever the fetches before it led to.
C15_PollsForever ==
    []<>(pc["POLL"] = "fetch")

\* C16: until the bootstrap has finished last_name is None, neither loop
\* has started, no guard is held and no alert exists; the bootstrap stores
\* the fetched name on success and nothing on failure, triggers no alert
\* and starts both loops; reconciliations happen only afterwards.
C16_BootstrapFirst ==
    [][ /\ (pc["POLL"] = "init")
               => /\ pc["WS"] = "init"
                  /\ last_name = None
                  /\ readers = {} /\ writer = "none"
                  /\ alerts = << >> /\ notified = << >> /\ ~running
        /\ (pc["POLL"] = "init" /\ pc'["POLL"] # "init")
               => /\ pc' = [p \in Procs |-> IF p = "POLL" THEN "sleep" ELSE "connect"]
                  /\ last_name' = IF boot_ok' THEN actual ELSE None
                  /\ alerts' = alerts /\ notified' = notified /\ running' = running
        /\ (pc["WS"] = "init") => (pc'["WS"] = "init" \/ pc["POLL"] = "init")
        /\ \A p \in Procs : (pc'[p] \in Reconciling) => pc["POLL"] # "init"
      ]_vars

C16_Witness ==
    /\ pc = [p \in Procs |-> IF p = "POLL" THEN "sleep" ELSE "connect"]
    /\ boot_ok
    /\ ~poll_err
    /\ last_name = Some("general-chat")
    /\ actual = Some("general-chat")
    /\ alerts = << >>
    /\ ~running

\* C17: a call of start_alarm sets running and starts one notification with
\* the caller's name in the same step; notifications come from nowhere else,
\* so there is one per call, in the order of the calls; play_sound is started
\* only from inside the loop, after the notification has completed, by a step
\* that read running as true.
C17_TriggerOrder ==
    [][ /\ \A p \in Procs :
               (pc'[p] = "notify" /\ pc[p] # "notify")
                   => /\ pc[p] = "store"
                      /\ running'
                      /\ alerts' = Append(alerts, AlertAt(p))
                      /\ notified' = Append(notified, new_name[p])
        /\ (notified' # notified) => (\E p \in Procs : pc'[p] = "notify" /\ pc[p] = "store")
        /\ Len(notified') = Len(alerts')
        /\ \A k \in 1..Len(alerts') : notified'[k] = alerts'[k].name
        /\ \A p \in Procs :
               (pc'[p] = "play" /\ pc[p] # "play")
                   => (running /\ pc[p] \in {"notify", "nap", "while"})
      ]_vars

C17_Witness ==
    /\ pc["POLL"] = "play"
    /\ pc["WS"] \notin AlarmLoop
    /\ running
    /\ Len(alerts) = 1
    /\ notified = << Some("general-chat") >>

\* A step of caller p inside start_alarm.
LoopStep(p) == pc[p] \in AlarmLoop /\ (pc'[p] # pc[p] \/ ticks'[p] # ticks[p])

\* C18: after stop(), while running stays false, the end of the await in
\* progress (the notification, a playback or one 100 ms sleep) starts no
\* further await: the caller returns from start_alarm, at once or by the
\* while test that follows the break, with running still false; and a
\* caller inside the loop always has its next step before it, so the loop
\* is left as soon as the await in progress completes.
C18_StopEndsLoop ==
    [][ \A p \in Procs :
            /\ (~running /\ LoopStep(p))
                   => /\ pc'[p] \in {"while", ReturnTo(p)}
                      /\ (pc[p] = "while") => pc'[p] = ReturnTo(p)
                      /\ ~running'
            /\ (pc[p] \in AlarmLoop) => ENABLED AlarmProgress(p)
      ]_vars

C18_Witness ==
    /\ pc["POLL"] = "sleep"
    /\ ~running
    /\ Len(alerts) = 1
    /\ alerts[1].source = "POLL"
    /\ pc["WS"] \notin AlarmLoop

\* C19: running becomes false only by stop(), and that step changes nothing
\* else: a playback in flight stays in flight and completes as any other;
\* a playback is started only by a step that read running as true, so none
\* is started while running stays false.
C19_StopOnlyClearsFlag ==
    [][ /\ (running /\ ~running')
               => /\ pc' = pc /\ ticks' = ticks
                  /\ alerts' = alerts /\ notified' = notified
                  /\ last_name' = last_name
        /\ \A p \in Procs :
               /\ (pc[p] = "play" /\ pc'[p] # "play")
                      => (pc'[p] \in {"nap", "while", ReturnTo(p)} /\ running' = running)
               /\ (pc[p] = "play") => ENABLED (\E ok \in BOOLEAN : PlayDone(p, ok))
               /\ (~running /\ pc[p] # "play") => pc'[p] # "play"
      ]_vars

C19_Witness ==
    /\ pc["WS"] = "play"
    /\ ~running
    /\ pc["POLL"] \notin AlarmLoop
    /\ Len(alerts) = 1

\* C20: at most one caller is inside start_alarm and at most one play_sound
\* is in flight.
C20_OneAlertLoop ==
    /\ Cardinality({p \in Procs : pc[p] \in AlarmLoop}) <= 1
    /\ Cardinality({p \in Procs : pc[p] = "play"}) <= 1

\* C21: start_alarm is never called for an absent name and never with the
\* empty string, whatever names were observed.
C21_TriggerNameNonEmpty ==
    \A k \in 1..Len(alerts) :
        alerts[k].name # None /\ alerts[k].name # Some("")

\* C22: under the runtime's scheduling, once the channel is renamed no more
\* and no fetch fails any more, last_name becomes the channel's name and
\* stays it, whatever alerts were triggered before.
C22_EventualConsistency ==
    (<>[](~poll_err)) => <>[](last_name = actual)

\* C23: the flag is one cell.  is_running() is false until a trigger or a
\* store through a handle; it becomes true by nothing else; after stop() it
\* is false; a store of b through the handle makes is_running() return b;
\* and a load through the handle always returns what is_running() returns,
\* whoever stored last.
C23_FlagShared ==
    [][ /\ (alerts = << >> /\ handle = NoHandle) => ~is_running
        /\ (~is_running /\ is_running')
               => \/ \E p \in Procs : pc[p] = "store" /\ pc'[p] = "notify"
                  \/ handle # NoHandle /\ FlagStore(TRUE)
        /\ Stop => ~is_running'
        /\ \A b \in BOOLEAN : FlagStore(b) => (is_running' = b)
        /\ (handle' # NoHandle) => (FlagLoad(handle)' = is_running')
      ]_vars

C23_Witness ==
    /\ handle # NoHandle
    /\ FlagLoad(handle)
    /\ is_running
    /\ alerts = << >>

\* Positions of websocket_loop without a session: connecting, in the
\* handshake or in the reconnect sleep.
GatewayDown == {"connect", "hello", "identify", "backoff"}

\* The steps of poll_loop.
PollTurn == PollWake \/ (\E ok \in BOOLEAN : PollFetch(ok)) \/ Progress("POLL")

\* C24: a step by which websocket_loop fails, backs off or retries leaves
\* poll_loop, last_name, the lock and the alarm as they are, and while the
\* gateway is down poll_loop always has its next step (wake, fetch,
\* reconcile, alert) enabled; a failed fetch leaves websocket_loop and its
\* session as they are, and between failing fetches a live session always
\* can take its next event and carry its reconciliation on.
C24_FailureIsolation ==
    [][ /\ (pc["WS"] # "init" /\ pc'["WS"] # pc["WS"]
              /\ pc'["WS"] \in {"connect", "backoff"})
               => /\ pc'["POLL"] = pc["POLL"]
                  /\ new_name'["POLL"] = new_name["POLL"]
                  /\ UNCHANGED <<lockVars, alarmVars, pollVars>>
        /\ (pc["WS"] \in GatewayDown) => ENABLED PollTurn
        /\ (pc["POLL"] = "fetch" /\ pc'["POLL"] = "sleep")
               => /\ pc'["WS"] = pc["WS"]
                  /\ new_name'["WS"] = new_name["WS"]
                  /\ UNCHANGED <<lockVars, alarmVars, connVars, sessVars, hbVars>>
        /\ (pc["POLL"] \in {"sleep", "fetch"} /\ pc["WS"] = "active" /\ inbox # << >>)
               => ENABLED RecvEvent
        /\ (pc["POLL"] \in {"sleep", "fetch"} /\ pc["WS"] \in Reconciling \cup AlarmLoop)
               => ENABLED Progress("WS")
      ]_vars

C24_Witness ==
    /\ pc["WS"] = "backoff"
    /\ ws_delay = ReconnectSecs
    /\ pc["POLL"] = "play"
    /\ alerts = << [source |-> "POLL", name |-> Some("general-chat"),
                    seen |-> Some(""), prior |-> Some("")] >>

\* C25: last_name is None until the first write and changes only when a
\* write completes, to the value written, so a read returns the value of
\* the last completed write: the compare of a reader is decided by that
\* value.  While a write guard is held no read guard and no other write
\* guard is held; the guards are held exactly at the positions of lines
\* 29-31 and 32-34.
C25_ReadAfterWrite ==
    [][ /\ (pc["POLL"] = "init") => last_name = None
        /\ (writer # "none") => (readers = {} /\ pc[writer] = "store")
        /\ readers = {p \in Procs : pc[p] = "cmp"}
        /\ \A p \in Procs : (pc[p] = "store") => writer = p
        /\ (last_name' # last_name)
               => \/ pc["POLL"] = "init" /\ last_name' = actual
                  \/ \E p \in Procs : /\ writer = p
                                       /\ writer' = "none"
                                       /\ last_name' = new_name[p]
        /\ \A p \in Procs :
               /\ (pc[p] = "store" /\ pc'[p] # "store") => last_name' = new_name[p]
               /\ (pc[p] = "cmp" /\ pc'[p] = "write") => seen'[p] = last_name
               /\ (pc[p] = "cmp" /\ pc'[p] # "cmp")
                      => ((pc'[p] = "write") <=> (last_name # new_name[p]))
      ]_vars

C25_Witness ==
    /\ writer = "WS"
    /\ pc["POLL"] = "read"
    /\ last_name = Some("")
    /\ new_name["WS"] = Some("general-chat")

\* C26: a failed initial fetch leaves last_name None and starts both loops
\* without an alert; while nothing but None has been stored since, a
\* reconciliation of a present name finds a difference, stores the name and
\* calls start_alarm with it, although the channel was not renamed.
C26_BootstrapFailure ==
    [][ /\ (pc["POLL"] = "init" /\ pc'["POLL"] # "init" /\ ~boot_ok')
               => /\ last_name' = None
                  /\ pc' = [p \in Procs |-> IF p = "POLL" THEN "sleep" ELSE "connect"]
                  /\ alerts' = alerts /\ running' = running
        /\ \A p \in Procs :
               /\ (~boot_ok /\ last_name = None /\ new_name[p] # None
                      /\ pc[p] = "cmp" /\ pc'[p] # "cmp")
                      => pc'[p] = "write"
               /\ (~boot_ok /\ new_name[p] # None
                      /\ pc[p] = "store" /\ pc'[p] # "store")
                      => /\ last_name' = new_name[p]
                         /\ alerts' = Append(alerts, AlertAt(p))
                         /\ notified' = Append(notified, new_name[p])
                         /\ pc'[p] = "notify"
      ]_vars

C26_Witness ==
    /\ ~boot_ok
    /\ changes = 0
    /\ actual = Some("general-chat")
    /\ last_name = actual
    /\ pc["POLL"] = "notify"
    /\ alerts = << [source |-> "POLL", name |-> actual, seen |-> None, prior |-> None] >>

\* C27: a caller inside start_alarm holds no guard of last_name, so the
\* other caller's read lock, compare, write lock and store (with its own
\* start_alarm for a present name) are all enabled while the loop runs.
C27_AlarmHoldsNoLock ==
    \A p \in Procs :
        (pc[p] \in AlarmLoop)
            => /\ p \notin readers
               /\ writer # p
               /\ \A q \in Procs \ {p} :
                      /\ (pc[q] = "read") => ENABLED AcquireRead(q)
                      /\ (pc[q] = "cmp") => ENABLED Compare(q)
                      /\ (pc[q] = "write") => ENABLED AcquireWrite(q)
                      /\ (pc[q] = "store") => ENABLED Store(q)

C27_Witness ==
    /\ pc["POLL"] \in AlarmLoop
    /\ pc["WS"] = "notify"
    /\ Len(alerts) = 2
    /\ alerts[1].source = "POLL"
    /\ alerts[2].source = "WS"
    /\ alerts[2].seen = alerts[1].name
    /\ alerts[2].name # alerts[1].name

\* C28: when the awaits inside start_alarm complete, every caller that is
\* inside start_alarm when stop() has cleared the flag eventually returns
\* from it, also if start_alarm is called anew in the meantime.
C28_StopEndsEveryLoop ==
    \A p \in Procs :
        (~running /\ pc[p] \in AlarmLoop) ~> (pc[p] \notin AlarmLoop)

\* Frames the event loop must ignore according to C29.
Ignored(f) ==
    \/ f.kind = "text" /\ ~f.json
    \/ f.kind = "text" /\ f.json /\ f.op \notin {0, 11}
    \/ /\ f.kind = "text" /\ f.json /\ f.op = 0 /\ f.t = Some("CHANNEL_UPDATE")
       /\ f.d.type \notin {"none", "channel"}
    \/ f.kind \notin {"text", "close", "error", "end"}

\* C29: while Active, the arrival (frame is the frame read.next() returned
\* last) of a text frame that is no gateway message, a frame with
\* an op other than 0 and 11, a CHANNEL_UPDATE whose payload is no channel
\* record and a frame that is neither text nor close leave the client
\* Active and last_name, the alarm and the heartbeat task as they are; the
\* event loop of a connection is left only for the reconnect sleep, and only
\* by a close frame, a transport error, the end of the stream or a failed
\* heartbeat send.
C29_IgnoredFrames ==
    [][ /\ (pc["WS"] = "active" /\ frame' # frame /\ Ignored(frame'))
               => /\ pc'["WS"] = "active"
                  /\ last_name' = last_name
                  /\ alerts' = alerts
                  /\ running' = running
                  /\ UNCHANGED <<hbVars, identifies, inbox>>
        /\ (pc["WS"] \in InSession /\ pc'["WS"] \notin InSession)
               => /\ pc'["WS"] = "backoff"
                  /\ \/ pc["WS"] = "beat"
                     \/ pc["WS"] = "active" /\ frame'.kind \in {"close", "error", "end"}
      ]_vars

C29_Witness ==
    /\ pc["WS"] = "active"
    /\ frame = OtherFrame("binary")
    /\ hb_task # "none"
    /\ identifies = 1

\* C30: a failed notification and a failed playback leave the running flag
\* as it is and the caller in the loop as a successful one would; a failure
\* is logged by the completion of a command only; while
\* running is true the loop goes on to the next playback or sleep, and the
\* sleeps of a cycle end in a new playback; start_alarm returns only with
\* the flag clear, and only stop() clears it.
C30_FailureKeepsAlarm ==
    [][ /\ \A p \in Procs :
               /\ NotifyDone(p, FALSE)
                      => /\ running' = running
                         /\ pc'[p] = IF running THEN "play" ELSE ReturnTo(p)
               /\ PlayDone(p, FALSE)
                      => /\ running' = running
                         /\ pc'[p] = IF running THEN "nap" ELSE "while"
               /\ (alarm_err'[p] /\ ~alarm_err[p])
                      => /\ pc[p] \in {"notify", "play"}
                         /\ running => pc'[p] \in {"play", "nap"}
               /\ (running /\ LoopStep(p)) => pc'[p] \in {"play", "nap"}
               /\ (running /\ LoopStep(p) /\ pc[p] = "nap" /\ ticks[p] + 1 >= SleepChecks)
                      => pc'[p] = "play"
               /\ (pc[p] \in AlarmLoop /\ pc'[p] \notin AlarmLoop) => ~running
        /\ (running /\ ~running') => Stop
      ]_vars

C30_Witness ==
    /\ pc["POLL"] = "nap"
    /\ alarm_err["POLL"]
    /\ running
    /\ pc["WS"] \notin AlarmLoop

\* The caller's next step of lines 29-34 can be taken.
CanReconcile(p) ==
    \/ pc[p] = "read" /\ ENABLED AcquireRead(p)
    \/ pc[p] = "cmp" /\ ENABLED Compare(p)
    \/ pc[p] = "write" /\ ENABLED AcquireWrite(p)
    \/ pc[p] = "store" /\ ENABLED Store(p)

\* C31: a caller that requests a lock of last_name holds no guard of it; a
\* caller that holds a guard can always take its next step, which releases
\* the guard; so a caller whose lock request is not granted waits for the
\* other caller only, and that one is not waiting: one reconciliation alone
\* is never blocked and of two at least the holder of a guard proceeds.
C31_DeadlockFree ==
    \A p \in Procs :
        /\ (pc[p] \in {"read", "write"}) => (p \notin readers /\ writer # p)
        /\ (pc[p] \in {"cmp", "store"}) => CanReconcile(p)
        /\ (pc[p] \in {"read", "write"} /\ ~CanReconcile(p))
               => \E q \in Procs \ {p} :
                      /\ pc[q] \in {"cmp", "store"}
                      /\ CanReconcile(q)
        /\ (pc[p] \in Reconciling /\ \A q \in Procs \ {p} : pc[q] \notin Reconciling)
               => CanReconcile(p)

C31_Witness ==
    /\ pc["POLL"] = "write"
    /\ pc["WS"] = "cmp"
    /\ readers = {"WS"}
    /\ ~CanReconcile("POLL")
    /\ CanReconcile("WS")

====
